---------------------------- MODULE Spec2Model ----------------------------
(***************************************************************************)
(* A model of horizons_wrapper/ephem_subs.py: the fetch of an ephemeris    *)
(* (horizons_ephem), the shaping of the response (convert_horizons_table), *)
(* the disambiguation heuristic (determine_horizons_id) and the table of   *)
(* mount limits (get_mountlimits).                                         *)
(*                                                                         *)
(* A Python str is a sequence of one-character strings, so that split,     *)
(* isdigit, upper, `in' and int are computed the way Python computes them. *)
(* A datetime is a count of days (its proleptic Gregorian ordinal); a      *)
(* timedelta is a difference of two of them.  Angles are hundredths of a   *)
(* degree.                                                                 *)
(*                                                                         *)
(* The module reads two globals it never binds, `logger' and               *)
(* `calc_moon_sep': a read raises NameError unless the importing program   *)
(* has set the name on the module.  The variable `bound' holds the names   *)
(* that are set; the module as shipped has bound = {}.                     *)
(***************************************************************************)
EXTENDS Integers, Sequences, FiniteSets, TLC

VARIABLES
    pc,          \* horizons_ephem: the position of the call
    bound,       \* the module globals among UnboundNames that are bound
    args,        \* horizons_ephem: the arguments of the call
    loc,         \* horizons_ephem: the local variables
    queries,     \* the calls of Horizons(...).ephemerides(...) made so far
    exc,         \* horizons_ephem: the exception in flight, and its origin
    outcome,     \* horizons_ephem: what the call gave its caller
    d_lines,     \* determine_horizons_id: lines
    d_now,       \* determine_horizons_id: now
    d_i,         \* determine_horizons_id: index of the next line of the loop
    d_st,        \* determine_horizons_id: timespan, horizons_id, exception
    q_given,     \* the quantities string a caller supplied
    q_prev,      \* the quantities string before the last augmentation
    q_cur,       \* the quantities string after the augmentations so far
    q_n,         \* how many times lines 80-81 ran on it
    m_site,      \* get_mountlimits: site_code_or_name
    m_ret        \* get_mountlimits: the returned triple, <<>> before

vars == <<pc, bound, args, loc, queries, exc, outcome,
          d_lines, d_now, d_i, d_st, q_given, q_prev, q_cur, q_n, m_site, m_ret>>

fetchVars == <<pc, bound, args, loc, queries, exc, outcome>>
resolveVars == <<d_lines, d_now, d_i, d_st>>
quantVars == <<q_given, q_prev, q_cur, q_n>>
limitVars == <<m_site, m_ret>>

(***************************************************************************)
(* Bounds of the model.                                                    *)
(***************************************************************************)
MaxLines == 3      \* lines handed to determine_horizons_id
MaxCodes == 3      \* codes in a caller's quantities string
MaxPad == 1        \* characters around a site fragment
MaxRows == 2       \* rows of a response table

(***************************************************************************)
(* Python str operations.                                                  *)
(***************************************************************************)
Digits == <<"0", "1", "2", "3", "4", "5", "6", "7", "8", "9">>

\* U+00B2, a character of which str.isdigit() is true and which int() and
\* the \d of strptime refuse
SuperscriptTwo == "sup2"

IsDecimalChar(c) == \E k \in 1..10 : Digits[k] = c

IsDigitChar(c) == IsDecimalChar(c) \/ c = SuperscriptTwo

DigitVal(c) == (CHOOSE k \in 1..10 : Digits[k] = c) - 1

\* str.isdigit(): every character a digit, and at least one character
isdigit(s) == Len(s) >= 1 /\ \A k \in 1..Len(s) : IsDigitChar(s[k])

\* int(s) does not raise ValueError
IntOk(s) == Len(s) >= 1 /\ \A k \in 1..Len(s) : IsDecimalChar(s[k])

RECURSIVE int(_)
\* int(s) of a string of decimal digits
int(s) == IF Len(s) = 0 THEN 0
          ELSE 10 * int(SubSeq(s, 1, Len(s) - 1)) + DigitVal(s[Len(s)])

Whitespace == {" ", "\t", "\n"}

RECURSIVE SplitWs(_, _, _)
\* str.split(): the maximal runs of non-whitespace, in order
SplitWs(s, cur, acc) ==
    IF Len(s) = 0 THEN (IF Len(cur) = 0 THEN acc ELSE Append(acc, cur))
    ELSE IF Head(s) \in Whitespace
         THEN SplitWs(Tail(s), <<>>, IF Len(cur) = 0 THEN acc ELSE Append(acc, cur))
         ELSE SplitWs(Tail(s), Append(cur, Head(s)), acc)

split(s) == SplitWs(s, <<>>, <<>>)

RECURSIVE SplitSep(_, _, _, _)
\* str.split(sep) for a one-character sep: empty pieces are kept
SplitSep(s, sep, cur, acc) ==
    IF Len(s) = 0 THEN Append(acc, cur)
    ELSE IF Head(s) = sep
         THEN SplitSep(Tail(s), sep, <<>>, Append(acc, cur))
         ELSE SplitSep(Tail(s), sep, Append(cur, Head(s)), acc)

splitOn(s, sep) == SplitSep(s, sep, <<>>, <<>>)

\* needle in hay, for strings
Contains(hay, needle) ==
    \E k \in 0..(Len(hay) - Len(needle)) :
        SubSeq(hay, k + 1, k + Len(needle)) = needle

Lowers == <<"a", "b", "c", "d", "e", "f", "g", "h", "i", "j", "k", "l",
           "m", "n", "o", "p", "q", "r", "s", "t", "u", "v", "w", "x", "y", "z">>

Uppers == <<"A", "B", "C", "D", "E", "F", "G", "H", "I", "J", "K", "L",
           "M", "N", "O", "P", "Q", "R", "S", "T", "U", "V", "W", "X", "Y", "Z">>

UpperChar(c) ==
    IF \E k \in 1..Len(Lowers) : Lowers[k] = c
    THEN Uppers[CHOOSE k \in 1..Len(Lowers) : Lowers[k] = c]
    ELSE c

\* str.upper()
upper(s) == [k \in 1..Len(s) |-> UpperChar(s[k])]

RECURSIVE Join(_, _)
\* sep.join(parts)
Join(parts, sep) ==
    IF Len(parts) = 0 THEN <<>>
    ELSE IF Len(parts) = 1 THEN parts[1]
    ELSE parts[1] \o sep \o Join(Tail(parts), sep)

Abs(x) == IF x < 0 THEN -x ELSE x

Max(a, b) == IF a >= b THEN a ELSE b

(***************************************************************************)
(* get_mountlimits (lines 169-190).  Hours are hundredths of an hour, so   *)
(* that 4.46 * 15.0 is 446 * 15 hundredths of a degree.                    *)
(***************************************************************************)
Sites1m == { <<"V","3","7">>, <<"V","3","9">>, <<"W","8","5">>, <<"W","8","6">>,
             <<"W","8","7">>, <<"K","9","1">>, <<"K","9","2">>, <<"K","9","3">>,
             <<"Q","6","3">>, <<"Q","6","4">> }

Sites0m4 == { <<"Z","1","7">>, <<"Z","2","1">>, <<"Q","5","8">>, <<"Q","5","9">>,
              <<"T","0","3">>, <<"T","0","4">>, <<"W","8","9">>, <<"W","7","9">>,
              <<"V","3","8">>, <<"L","0","9">> }

Frag1M0A == <<"-","1","M","0","A">>
FragAQWA == <<"-","A","Q","W","A">>
FragAQWB == <<"-","A","Q","W","B">>
FragCLMA0M4 == <<"C","L","M","A","-","0","M","4">>

\* The site compared as given, without upper()
get_mountlimits_cased(site_code_or_name) ==
    LET site == site_code_or_name
    IN  IF Contains(site, Frag1M0A) \/ site \in Sites1m
        THEN <<-(450 * 15), 450 * 15, 3000>>
        ELSE IF \/ Contains(site, FragAQWA) \/ Contains(site, FragAQWB)
                \/ Contains(site, FragCLMA0M4) \/ site \in Sites0m4
        THEN <<-(450 * 15), 446 * 15, 1500>>
        ELSE <<-(1200 * 15), 1200 * 15, 2500>>

\* <<ha_neg_limit, ha_pos_limit, alt_limit>>
get_mountlimits(site_code_or_name) ==
    LET site == upper(site_code_or_name)
    IN  IF Contains(site, Frag1M0A) \/ site \in Sites1m
        THEN <<-(450 * 15), 450 * 15, 3000>>
        ELSE IF \/ Contains(site, FragAQWA) \/ Contains(site, FragAQWB)
                \/ Contains(site, FragCLMA0M4) \/ site \in Sites0m4
        THEN <<-(450 * 15), 446 * 15, 1500>>
        ELSE <<-(1200 * 15), 1200 * 15, 2500>>

(***************************************************************************)
(* The quantities string (lines 79-81).                                    *)
(***************************************************************************)
\* if '3,' not in quantities: quantities += ',3'
AugmentQuantities(quantities) ==
    IF ~Contains(quantities, <<"3", ",">>)
    THEN quantities \o <<",", "3">>
    ELSE quantities

\* The codes of a quantities string, as the service reads them
QuantityCodes(quantities) ==
    LET parts == splitOn(quantities, ",")
    IN  {parts[k] : k \in 1..Len(parts)}

(***************************************************************************)
(* determine_horizons_id (lines 146-166).                                  *)
(***************************************************************************)
TimedeltaMaxDays == 999999999

\* date(year, 1, 1).toordinal()
YearStart(year) ==
    LET y == year - 1
    IN  365 * y + (y \div 4) - (y \div 100) + (y \div 400) + 1

\* datetime.strptime(s, "%Y") raises ValueError unless s is four digits of
\* a year from 1 to 9999
StrptimeYearOk(s) == Len(s) = 4 /\ IntOk(s) /\ int(s) >= 1

\* The integer that stands for None where an id may stand (ids have no sign)
NoneId == -1

\* The local variables before the loop (lines 153-154)
ResolveStart == [timespan |-> TimedeltaMaxDays, horizons_id |-> NoneId, raised |-> "no"]

\* The loop body with a strict comparison
ResolveStep_strict(st, line, now, names) ==
    LET chunks == split(line)
    IN  IF st.raised # "no" THEN st
        ELSE IF Len(chunks) >= 5 /\ isdigit(chunks[1]) /\ isdigit(chunks[2])
        THEN IF /\ StrptimeYearOk(chunks[2])
                /\ (Abs(now - YearStart(int(chunks[2]))) < st.timespan => IntOk(chunks[1]))
             THEN LET epoch_yr == YearStart(int(chunks[2]))
                  IN  IF Abs(now - epoch_yr) < st.timespan
                      THEN [st EXCEPT !.horizons_id = int(chunks[1]),
                                      !.timespan = now - epoch_yr]
                      ELSE st
             ELSE IF "logger" \in names THEN st
                  ELSE [st EXCEPT !.raised = "NameError"]
        ELSE st

\* The loop body (lines 156-165) on one line.  names: the module globals
\* that are bound.  The ValueError of strptime (line 159) or of int (line 162)
\* is caught at line 164, where line 165 reads `logger'.
ResolveStep(st, line, now, names) ==
    LET chunks == split(line)
    IN  IF st.raised # "no" THEN st
        ELSE IF Len(chunks) >= 5 /\ isdigit(chunks[1]) /\ isdigit(chunks[2])
        THEN IF /\ StrptimeYearOk(chunks[2])
                /\ (Abs(now - YearStart(int(chunks[2]))) <= st.timespan => IntOk(chunks[1]))
             THEN LET epoch_yr == YearStart(int(chunks[2]))
                  IN  IF Abs(now - epoch_yr) <= st.timespan
                      THEN [st EXCEPT !.horizons_id = int(chunks[1]),
                                      !.timespan = now - epoch_yr]
                      ELSE st
             ELSE IF "logger" \in names THEN st
                  ELSE [st EXCEPT !.raised = "NameError"]
        ELSE st

RECURSIVE ResolveFrom(_, _, _, _)
ResolveFrom(st, lines, now, names) ==
    IF Len(lines) = 0 THEN st
    ELSE ResolveFrom(ResolveStep(st, Head(lines), now, names), Tail(lines), now, names)

\* The whole call: the final locals; horizons_id is returned unless raised
determine_horizons_id(lines, now, names) == ResolveFrom(ResolveStart, lines, now, names)

(***************************************************************************)
(* The values the calls are tried on.                                      *)
(***************************************************************************)
\* The module reads the globals `logger' (lines 92-113, 165) and
\* `calc_moon_sep' (line 138) and binds neither: a read raises NameError
\* unless the importing program has set the name on the module.
UnboundNames == {"logger", "calc_moon_sep"}

Idle == "idle"

\* All sequences over S of length at most n
RECURSIVE SeqsUpTo(_, _)
SeqsUpTo(S, n) ==
    IF n = 0 THEN {<<>>}
    ELSE LET shorter == SeqsUpTo(S, n - 1)
         IN  shorter \cup {Append(q, x) : q \in {r \in shorter : Len(r) = n - 1}, x \in S}

\* str.lower() on the letters of Uppers, to write a site in lower case
LowerChar(c) ==
    IF \E k \in 1..Len(Uppers) : Uppers[k] = c
    THEN Lowers[CHOOSE k \in 1..Len(Uppers) : Uppers[k] = c]
    ELSE c

lower(s) == [k \in 1..Len(s) |-> LowerChar(s[k])]

OtherSites ==
    { <<"F", "6", "5">>,   \* 'F65'
      <<"E", "1", "0">>,   \* 'E10'
      <<>>,   \* ''
      <<"-", "1">>,   \* '-1'
      <<"V", "3">>,   \* 'V3'
      <<"L", "S", "C", "-", "D", "O", "M", "A", "-", "1", "M", "0", "A">>,   \* 'LSC-DOMA-1M0A'
      <<"O", "G", "G", "-", "C", "L", "M", "A", "-", "2", "M", "0", "A">>,   \* 'OGG-CLMA-2M0A'
      <<"O", "G", "G", "-", "C", "L", "M", "A", "-", "0", "M", "4", "B">>,   \* 'OGG-CLMA-0M4B'
      <<"T", "F", "N", "-", "A", "Q", "W", "A", "-", "0", "M", "4", "A">>,   \* 'TFN-AQWA-0M4A'
      <<"C", "O", "J", "-", "A", "Q", "W", "B", "-", "0", "M", "4", "A">>,   \* 'COJ-AQWB-0M4A'
      <<"X", "-", "A", "Q", "W", "A", "-", "1", "M", "0", "A">>,   \* 'X-AQWA-1M0A'
      <<"C", "L", "M", "A", "-", "0", "M", "4", "-", "1", "M", "0", "A">>,   \* 'CLMA-0M4-1M0A'
      <<"1", "M", "0", "A">>,   \* '1M0A'
      <<"A", "Q", "W", "A">> }   \* 'AQWA'

SiteCores == Sites1m \cup Sites0m4 \cup OtherSites

PadChars == {"-", "X", "7"}

SiteInputs ==
    {pre \o core \o post :
        pre \in SeqsUpTo(PadChars, MaxPad),
        core \in SiteCores \cup {lower(c) : c \in SiteCores},
        post \in SeqsUpTo(PadChars, MaxPad)}

QuantityCodeInputs ==
    { <<"1">>,   \* '1'
      <<"3">>,   \* '3'
      <<"9">>,   \* '9'
      <<"1", "3">>,   \* '13'
      <<"2", "3">>,   \* '23'
      <<"4", "3">> }   \* '43'

QuantityInputs ==
    {Join(codes, <<",">>) : codes \in SeqsUpTo(QuantityCodeInputs, MaxCodes) \ {<<>>}}

LineInputs ==
    { <<"4", "3", "3", " ", "2", "0", "1", "8", " ", "a", " ", "b", " ", "c">>,   \* '433 2018 a b c'
      <<"4", "3", "4", " ", "2", "0", "2", "0", " ", "a", " ", "b", " ", "c">>,   \* '434 2020 a b c'
      <<"4", "3", "5", " ", "2", "0", "3", "0", " ", "a", " ", "b", " ", "c">>,   \* '435 2030 a b c'
      <<"4", "3", "6", " ", "2", "0", "1", "8", " ", "a", " ", "b", " ", "c">>,   \* '436 2018 a b c'
      <<"4", "3", "7", " ", "2", "0", "1", "9", " ", "a", " ", "b">>,   \* '437 2019 a b'
      <<"x", " ", "2", "0", "1", "9", " ", "a", " ", "b", " ", "c">>,   \* 'x 2019 a b c'
      <<"4", "3", "8", " ", "0", "0", "0", "0", " ", "a", " ", "b", " ", "c">>,   \* '438 0000 a b c'
      <<"4", "3", SuperscriptTwo, " ", "2", "0", "1", "8", " ", "a", " ", "b", " ", "c">>,   \* '43(U+00B2) 2018 a b c'
      <<" ", " ", "4", "3", "9", " ", " ", "2", "0", "1", "9", "\t", "a", " ", "b", " ", "c", " ", "d">> }   \* '  439  2019\ta b c d'

\* datetime.utcnow(), or the now a caller passes: midnight of 1 January 2019
\* and of 2 July 2019
Nows == {YearStart(2019), YearStart(2019) + 182}

(***************************************************************************)
(* get_mountlimits applied to a site.                                      *)
(***************************************************************************)
InitIdleFetch ==
    /\ pc = Idle /\ args = Idle /\ loc = Idle /\ queries = <<>>
    /\ exc = Idle /\ outcome = Idle

InitIdleResolve == d_lines = <<>> /\ d_now = 0 /\ d_i = 1 /\ d_st = ResolveStart

InitIdleQuant == q_given = <<>> /\ q_prev = <<>> /\ q_cur = <<>> /\ q_n = 0

InitIdleLimits == m_site = <<>> /\ m_ret = <<>>

InitLimits ==
    /\ m_site \in SiteInputs
    /\ m_ret = <<>>
    /\ bound = {}
    /\ InitIdleFetch /\ InitIdleResolve /\ InitIdleQuant

GetMountLimits ==
    /\ m_ret = <<>>
    /\ m_ret' = get_mountlimits(m_site)
    /\ UNCHANGED <<m_site, bound, fetchVars, resolveVars, quantVars>>

NextLimits == GetMountLimits

SpecLimits == InitLimits /\ [][NextLimits]_vars

(***************************************************************************)
(* Lines 79-81 applied to a quantities string, and again to the result.    *)
(***************************************************************************)
InitQuant ==
    /\ q_given \in QuantityInputs
    /\ q_prev = q_given
    /\ q_cur = q_given
    /\ q_n = 0
    /\ bound = {}
    /\ InitIdleFetch /\ InitIdleResolve /\ InitIdleLimits

Augment ==
    /\ q_n < 2
    /\ q_prev' = q_cur
    /\ q_cur' = AugmentQuantities(q_cur)
    /\ q_n' = q_n + 1
    /\ UNCHANGED <<q_given, bound, fetchVars, resolveVars, limitVars>>

NextQuant == Augment

SpecQuant == InitQuant /\ [][NextQuant]_vars

(***************************************************************************)
(* determine_horizons_id, one line of the loop at a time.                  *)
(***************************************************************************)
InitResolve ==
    /\ d_lines \in SeqsUpTo(LineInputs, MaxLines)
    /\ d_now \in Nows
    /\ d_i = 1
    /\ d_st = ResolveStart
    /\ bound \in SUBSET UnboundNames
    /\ InitIdleFetch /\ InitIdleQuant /\ InitIdleLimits

ResolveLine ==
    /\ d_i <= Len(d_lines)
    /\ d_st.raised = "no"
    /\ d_st' = ResolveStep(d_st, d_lines[d_i], d_now, bound)
    /\ d_i' = d_i + 1
    /\ UNCHANGED <<d_lines, d_now, bound, fetchVars, quantVars, limitVars>>

NextResolve == ResolveLine

SpecResolve == InitResolve /\ [][NextResolve]_vars

\* determine_horizons_id has returned (line 166)
ResolveReturned == d_i > Len(d_lines) /\ d_st.raised = "no"

(***************************************************************************)
(* Claims about get_mountlimits.                                           *)
(***************************************************************************)
\* s holds frag as a run of consecutive characters
HasFragment(s, frag) ==
    \E i \in 1..Len(s) : \E j \in i..Len(s) : SubSeq(s, i, j) = frag

\* C10: get_mountlimits is a total, case-insensitive lookup: (-67.5, 67.5, 30)
\* when the upper-cased site is in the 1 m list or holds '-1M0A', otherwise
\* (-67.5, 66.9, 15) when it is in the 0.4 m list or holds '-AQWA', '-AQWB' or
\* 'CLMA-0M4', otherwise (-180, 180, 25); the lower-cased site gets the same.
LimitsTotalLookup ==
    m_ret # <<>> =>
        LET site == upper(m_site)
            is1m == site \in Sites1m \/ HasFragment(site, Frag1M0A)
            is0m4 == \/ site \in Sites0m4
                     \/ HasFragment(site, FragAQWA)
                     \/ HasFragment(site, FragAQWB)
                     \/ HasFragment(site, FragCLMA0M4)
        IN  /\ is1m => m_ret = <<-6750, 6750, 3000>>
            /\ (~is1m /\ is0m4) => m_ret = <<-6750, 6690, 1500>>
            /\ (~is1m /\ ~is0m4) => m_ret = <<-18000, 18000, 2500>>
            /\ m_ret = get_mountlimits(lower(m_site))

\* A 0.4 m site written in lower case has been looked up
LimitsLowerCaseSiteSeen ==
    /\ m_ret = <<-6750, 6690, 1500>>
    /\ m_site # upper(m_site)

(***************************************************************************)
(* Claims about the quantities string.                                     *)
(***************************************************************************)
\* C8: the quantities sent hold the code 3 as an element of its own, also
\* when the caller's string omits 3 and holds codes ending in 3.
QuantitySentHasRateCode ==
    q_n >= 1 => <<"3">> \in QuantityCodes(q_cur)

\* C9: the augmentation is idempotent: a string that holds the code 3, at any
\* position, is sent unchanged, and augmenting an augmented string changes
\* nothing.
QuantityAugmentIdempotent ==
    /\ (q_n >= 1 /\ <<"3">> \in QuantityCodes(q_given)) => q_cur = q_given
    /\ q_n = 2 => q_cur = q_prev

(***************************************************************************)
(* Claims about determine_horizons_id.                                     *)
(***************************************************************************)
\* A line with at least 5 tokens, the first two numeric, the second a
\* four-digit year
Qualifies(line) ==
    LET chunks == split(line)
    IN  /\ Len(chunks) >= 5
        /\ IntOk(chunks[1])
        /\ IntOk(chunks[2])
        /\ Len(chunks[2]) = 4
        /\ int(chunks[2]) >= 1

LineId(line) == int(split(line)[1])

LineEpoch(line) == YearStart(int(split(line)[2]))

LineDistance(line, now) == Abs(now - LineEpoch(line))

QualifyingLines == {k \in 1..Len(d_lines) : Qualifies(d_lines[k])}

\* C6: the id returned is that of a qualifying line whose year is nearest to
\* now among all qualifying lines, years after now included; None is returned
\* exactly when no line qualifies.
ResolveReturnsClosest ==
    ResolveReturned =>
        /\ (d_st.horizons_id = NoneId) <=> (QualifyingLines = {})
        /\ QualifyingLines # {} =>
               \E k \in QualifyingLines :
                   /\ d_st.horizons_id = LineId(d_lines[k])
                   /\ \A j \in QualifyingLines :
                          LineDistance(d_lines[k], d_now) <= LineDistance(d_lines[j], d_now)

StrptimeMessage ==   \* "time data 'n.a.' does not match format '%Y-%b-%d %H:%M'"
    <<"t", "i", "m", "e", " ", "d", "a", "t", "a", " ", "'", "n", ".", "a", ".", "'", " ", "d", "o", "e", "s", " ", "n", "o", "t", " ", "m", "a", "t", "c", "h", " ", "f", "o", "r", "m", "a", "t", " ", "'", "%", "Y", "-", "%", "b", "-", "%", "d", " ", "%", "H", ":", "%", "M", "'">>

DuplicateMessage ==   \* "Duplicate column names"
    <<"D", "u", "p", "l", "i", "c", "a", "t", "e", " ", "c", "o", "l", "u", "m", "n", " ", "n", "a", "m", "e", "s">>

KeyRARate == <<"R", "A", "_", "r", "a", "t", "e">>   \* 'RA_rate'

KeyRA == <<"R", "A">>   \* 'RA'

NameCalcMoonSep ==   \* 'calc_moon_sep'
    <<"c", "a", "l", "c", "_", "m", "o", "o", "n", "_", "s", "e", "p">>

AddColumns(ephem, names) == [ephem EXCEPT !.colnames = @ \cup names]

\* [ephem: the table after the call, raised: the exception or "no", exargs]
convert_horizons_table(ephem, include_moon, names) ==
    IF \E k \in 1..Len(ephem.rows) : ~ephem.rows[k]
    THEN [ephem |-> ephem, raised |-> "ValueError", exargs |-> <<StrptimeMessage>>]
    ELSE LET t1 == AddColumns(ephem, {"datetime"})
         IN  IF ~({"RA_rate", "DEC_rate"} \subseteq t1.colnames)
             THEN [ephem |-> t1, raised |-> "KeyError", exargs |-> <<KeyRARate>>]
             ELSE IF "mean_rate" \in t1.colnames
             THEN [ephem |-> t1, raised |-> "ValueError", exargs |-> <<DuplicateMessage>>]
             ELSE LET t2 == AddColumns(t1, {"mean_rate"})
                  IN  IF ~include_moon
                      THEN [ephem |-> t2, raised |-> "no", exargs |-> <<>>]
                      ELSE IF ~({"RA", "DEC"} \subseteq t2.colnames)
                      THEN [ephem |-> t2, raised |-> "KeyError", exargs |-> <<KeyRA>>]
                      ELSE IF Len(t2.rows) >= 1 /\ "calc_moon_sep" \notin names
                      THEN [ephem |-> t2, raised |-> "NameError", exargs |-> <<NameCalcMoonSep>>]
                      ELSE [ephem |-> AddColumns(t2, {"moon_sep", "moon_phase"}),
                            raised |-> "no", exargs |-> <<>>]

(***************************************************************************)
(* The remote service: what Horizons(...).ephemerides(...) may give.       *)
(***************************************************************************)
\* The columns of a response: those of quantity 1 and of quantity 3 come
\* only when the code is among the quantities sent
RawColumns(quantities) ==
    {"targetname", "datetime_str", "datetime_jd"}
    \cup (IF <<"1">> \in QuantityCodes(quantities) THEN {"RA", "DEC"} ELSE {})
    \cup (IF <<"3">> \in QuantityCodes(quantities) THEN {"RA_rate", "DEC_rate"} ELSE {})

RawTables(quantities) ==
    {[kind |-> "table", rows |-> r, colnames |-> RawColumns(quantities)] :
        r \in SeqsUpTo(BOOLEAN, MaxRows) \ {<<>>}}

NoTable == [kind |-> "unbound", rows |-> <<>>, colnames |-> {}]

NoneValue == [kind |-> "None", rows |-> <<>>, colnames |-> {}]

AmbiguousHeader ==   \* "Ambiguous target name; provide unique id:"
    <<"A", "m", "b", "i", "g", "u", "o", "u", "s", " ", "t", "a", "r", "g", "e", "t", " ", "n", "a", "m", "e", ";", " ", "p", "r", "o", "v", "i", "d", "e", " ", "u", "n", "i", "q", "u", "e", " ", "i", "d", ":">>

Candidate433 == <<"4", "3", "3", " ", "2", "0", "1", "8", " ", "a", " ", "b", " ", "c">>   \* '433 2018 a b c'

Candidate434 == <<"4", "3", "4", " ", "2", "0", "2", "0", " ", "a", " ", "b", " ", "c">>   \* '434 2020 a b c'

Candidate0 == <<"0", " ", "2", "0", "1", "8", " ", "a", " ", "b", " ", "c">>   \* '0 2018 a b c'

CandidateYear0 == <<"4", "3", "8", " ", "0", "0", "0", "0", " ", "a", " ", "b", " ", "c">>   \* '438 0000 a b c'

\* The text of a ValueError of the service: a heading and candidate lines
Payloads ==
    {Join(<<AmbiguousHeader>> \o ls, <<"\n">>) :
        ls \in { <<>>, <<Candidate433>>, <<Candidate433, Candidate434>>,
                 <<Candidate0>>, <<CandidateYear0>> }}

Responses(quantities) ==
    {[raised |-> "no", args |-> <<>>, table |-> t] : t \in RawTables(quantities)}
    \cup {[raised |-> "ValueError", args |-> <<p>>, table |-> NoTable] : p \in Payloads}
    \cup {[raised |-> x, args |-> <<>>, table |-> NoTable] :
             x \in {"ValueError", "ConnectionError", "OSError"}}

(***************************************************************************)
(* horizons_ephem (lines 15-114).                                          *)
(***************************************************************************)
FetchSites ==
    { <<"V", "3", "7">>,   \* 'V37'
      <<"-", "1">>,   \* '-1'
      <<>> }   \* ''

FetchQuantities ==
    { <<"1", ",", "3", ",", "4">>,   \* '1,3,4'
      <<"1", ",", "9">>,   \* '1,9'
      <<"1", ",", "1", "3", ",", "9">>,   \* '1,13,9'
      <<"9", ",", "3">> }   \* '9,3'

NoException == [type |-> "none", args |-> <<>>]

Running == [kind |-> "running", type |-> "none", value |-> NoTable]

Raised(type) == [kind |-> "raised", type |-> type, value |-> NoTable]

Returned(value) == [kind |-> "returned", type |-> "none", value |-> value]

ObjName == <<"H", "a", "l", "l", "e", "y">>   \* 'Halley'

InitFetch ==
    /\ pc = "start"
    /\ bound \in SUBSET UnboundNames
    /\ args \in [obj_name : {ObjName}, site_code : FetchSites, alt_limit : {0, 30},
                 quantities : FetchQuantities, include_moon : BOOLEAN]
    /\ loc = Idle
    /\ queries = <<>>
    /\ exc = NoException
    /\ outcome = Running
    /\ InitIdleResolve /\ InitIdleQuant /\ InitIdleLimits

\* Lines 68-85: the limits, the quantities, the daylight flag
Build ==
    /\ pc = "start"
    /\ LET limits == get_mountlimits(args.site_code)
       IN  loc' = [airmass_limit |-> IF args.alt_limit > 0
                                     THEN <<"1.0/cos(radians(deg))", 90 - args.alt_limit>>
                                     ELSE <<"const", 99>>,
                   ha_limit |-> Max(Abs(limits[1]), Abs(limits[2])) \div 15,
                   should_skip_daylight |->
                       ~(Len(args.site_code) >= 1 /\ args.site_code[1] = "-"),
                   quantities |-> AugmentQuantities(args.quantities),
                   ephem |-> NoTable,
                   horizons_id |-> NoneId,
                   resolved |-> FALSE]
    /\ pc' = "query1"
    /\ UNCHANGED <<bound, args, queries, exc, outcome, resolveVars, quantVars, limitVars>>

QueryRecord(id, id_type, epochs_format, response) ==
    [id |-> id, id_type |-> id_type, epochs_format |-> epochs_format,
     location |-> args.site_code, quantities |-> loc.quantities,
     skip_daylight |-> loc.should_skip_daylight,
     airmass_lessthan |-> loc.airmass_limit, max_hour_angle |-> loc.ha_limit,
     response |-> response]

\* Lines 68-69, 87-89: the first query, by name
Query1 ==
    /\ pc = "query1"
    /\ \E r \in Responses(loc.quantities) :
           /\ queries' = Append(queries,
                  QueryRecord(args.obj_name, "smallbody", "%Y-%m-%d %H:%M", r))
           /\ IF r.raised = "no"
              THEN loc' = [loc EXCEPT !.ephem = r.table] /\ pc' = "shape1" /\ UNCHANGED exc
              ELSE exc' = [type |-> r.raised, args |-> r.args] /\ pc' = "except1"
                   /\ UNCHANGED loc
    /\ UNCHANGED <<bound, args, outcome, resolveVars, quantVars, limitVars>>

\* Line 90
Shape1 ==
    /\ pc = "shape1"
    /\ LET c == convert_horizons_table(loc.ephem, args.include_moon, bound)
       IN  /\ loc' = [loc EXCEPT !.ephem = c.ephem]
           /\ IF c.raised = "no"
              THEN pc' = "return" /\ UNCHANGED exc
              ELSE exc' = [type |-> c.raised, args |-> c.exargs] /\ pc' = "except1"
    /\ UNCHANGED <<bound, args, queries, outcome, resolveVars, quantVars, limitVars>>

\* Lines 91-92: logger.error reads the global `logger'
ExceptConnectionError ==
    /\ pc = "except1"
    /\ exc.type = "ConnectionError"
    /\ IF "logger" \in bound
       THEN pc' = "return" /\ exc' = NoException /\ UNCHANGED outcome
       ELSE pc' = "done" /\ outcome' = Raised("NameError") /\ UNCHANGED exc
    /\ UNCHANGED <<bound, args, loc, queries, resolveVars, quantVars, limitVars>>

\* Lines 93-100, 110-113: every ValueError of the try block, whether of the
\* query or of convert_horizons_table
ExceptValueError ==
    /\ pc = "except1"
    /\ exc.type = "ValueError"
    /\ IF "logger" \notin bound
       THEN pc' = "done" /\ outcome' = Raised("NameError") /\ UNCHANGED <<loc, exc>>
       ELSE IF Len(exc.args) > 0
       THEN \E now \in Nows :
                LET choices == splitOn(exc.args[1], "\n")
                    r == determine_horizons_id(choices, now, bound)
                IN  IF r.raised # "no"
                    THEN /\ pc' = "done" /\ outcome' = Raised(r.raised)
                         /\ loc' = [loc EXCEPT !.ephem = NoneValue]
                         /\ UNCHANGED exc
                    ELSE /\ loc' = [loc EXCEPT !.ephem = NoneValue,
                                               !.horizons_id = r.horizons_id,
                                               !.resolved = TRUE]
                         /\ pc' = IF r.horizons_id # NoneId /\ r.horizons_id # 0
                                  THEN "query2" ELSE "return"
                         /\ exc' = NoException
                         /\ UNCHANGED outcome
       ELSE /\ loc' = [loc EXCEPT !.ephem = NoneValue]
            /\ pc' = "return"
            /\ exc' = NoException
            /\ UNCHANGED outcome
    /\ UNCHANGED <<bound, args, queries, resolveVars, quantVars, limitVars>>

\* An exception of the try block that no except clause names
Propagate1 ==
    /\ pc = "except1"
    /\ exc.type \notin {"ConnectionError", "ValueError"}
    /\ pc' = "done"
    /\ outcome' = Raised(exc.type)
    /\ UNCHANGED <<bound, args, loc, queries, exc, resolveVars, quantVars, limitVars>>

\* Lines 102-106: the retry, by id
Query2 ==
    /\ pc = "query2"
    /\ \E r \in Responses(loc.quantities) :
           /\ queries' = Append(queries,
                  QueryRecord(loc.horizons_id, "id", "%Y-%m-%d %H:%M:%S", r))
           /\ IF r.raised = "no"
              THEN loc' = [loc EXCEPT !.ephem = r.table] /\ pc' = "shape2" /\ UNCHANGED exc
              ELSE exc' = [type |-> r.raised, args |-> r.args] /\ pc' = "except2"
                   /\ UNCHANGED loc
    /\ UNCHANGED <<bound, args, outcome, resolveVars, quantVars, limitVars>>

\* Line 107
Shape2 ==
    /\ pc = "shape2"
    /\ LET c == convert_horizons_table(loc.ephem, args.include_moon, bound)
       IN  /\ loc' = [loc EXCEPT !.ephem = c.ephem]
           /\ IF c.raised = "no"
              THEN pc' = "return" /\ UNCHANGED exc
              ELSE exc' = [type |-> c.raised, args |-> c.exargs] /\ pc' = "except2"
    /\ UNCHANGED <<bound, args, queries, outcome, resolveVars, quantVars, limitVars>>

\* Lines 108-109: the inner try names ValueError alone
ExceptValueError2 ==
    /\ pc = "except2"
    /\ exc.type = "ValueError"
    /\ IF "logger" \in bound
       THEN pc' = "return" /\ exc' = NoException /\ UNCHANGED outcome
       ELSE pc' = "done" /\ outcome' = Raised("NameError") /\ UNCHANGED exc
    /\ UNCHANGED <<bound, args, loc, queries, resolveVars, quantVars, limitVars>>

\* Any other exception of the retry leaves the handler of line 93, where no
\* except clause of the outer try applies
Propagate2 ==
    /\ pc = "except2"
    /\ exc.type # "ValueError"
    /\ pc' = "done"
    /\ outcome' = Raised(exc.type)
    /\ UNCHANGED <<bound, args, loc, queries, exc, resolveVars, quantVars, limitVars>>

\* Line 114: `ephem' is unbound when the first query raised ConnectionError
Return ==
    /\ pc = "return"
    /\ pc' = "done"
    /\ outcome' = IF loc.ephem.kind = "unbound"
                  THEN Raised("UnboundLocalError")
                  ELSE Returned(loc.ephem)
    /\ UNCHANGED <<bound, args, loc, queries, exc, resolveVars, quantVars, limitVars>>

NextFetch ==
    \/ Build
    \/ Query1
    \/ Shape1
    \/ ExceptConnectionError
    \/ ExceptValueError
    \/ Propagate1
    \/ Query2
    \/ Shape2
    \/ ExceptValueError2
    \/ Propagate2
    \/ Return

SpecFetch == InitFetch /\ [][NextFetch]_vars

(***************************************************************************)
(* Claims about horizons_ephem.                                            *)
(***************************************************************************)
\* The table holds the derived columns
Shaped(value) ==
    /\ value.kind = "table"
    /\ {"datetime", "mean_rate"} \subseteq value.colnames
    /\ args.include_moon => {"moon_sep", "moon_phase"} \subseteq value.colnames

Unavailable == Returned(NoneValue)

\* The response is a table whose timestamps are all well formed
GoodTable(response) ==
    /\ response.raised = "no"
    /\ \A k \in 1..Len(response.table.rows) : response.table.rows[k]

\* The response is a table with a malformed timestamp
MalformedTable(response) ==
    /\ response.raised = "no"
    /\ \E k \in 1..Len(response.table.rows) : ~response.table.rows[k]

\* The candidate lines of an ambiguous-identifier failure
Candidates(response) ==
    IF response.raised = "ValueError" /\ Len(response.args) > 0
    THEN LET lines == splitOn(response.args[1], "\n")
         IN  {LineId(lines[k]) : k \in {n \in 1..Len(lines) : Qualifies(lines[n])}}
    ELSE {}

\* C1: when the first query fails as ambiguous with one qualifying candidate
\* line, exactly one retry is issued, with the candidate's id and id_type
\* 'id', and a retry that succeeds gives the shaped table.
FetchAmbiguousRetriesOnce ==
    (pc = "done" /\ Cardinality(Candidates(queries[1].response)) = 1) =>
        /\ Len(queries) = 2
        /\ queries[2].id \in Candidates(queries[1].response)
        /\ queries[2].id_type = "id"
        /\ GoodTable(queries[2].response) =>
               (outcome.kind = "returned" /\ Shaped(outcome.value))

\* C2: when the first query fails with a connectivity failure, the call ends
\* "unavailable" and no second query is issued.
FetchConnectivityUnavailable ==
    (pc = "done" /\ queries[1].response.raised = "ConnectionError") =>
        /\ outcome = Unavailable
        /\ Len(queries) = 1

=============================================================================
